---- MODULE Spec2Model ----
(***************************************************************************)
(* A model of socket-base: SocketBase (event multiplexer and heartbeat     *)
(* core), ClientSocketBase (responsive endpoint with the reconnection      *)
(* controller) and ServerSocketBase (initiating endpoint).                 *)
(*                                                                         *)
(* Time is in milliseconds.  Every timer (setTimeout / setInterval) is a   *)
(* slot holding the time that remains until it is due; Tick lets time      *)
(* pass, never beyond the next due timer, and a due timer's callback runs  *)
(* as one action.  Handlers are operators from an endpoint record to an    *)
(* endpoint record, composed in the order the code calls them.             *)
(***************************************************************************)
EXTENDS Integers, Sequences, FiniteSets, TLC

\* ---------------------------------------------------------------- bounds
\* WebSocket objects constructed during one run
MaxSockets == 2
\* timers of one kind pending at the same time
MaxTimers == 2
\* times the moving average changes medianPingInterval after one warmup
MaxUpdates == 1
\* longest measured gap between two pings, in units of TimeUnit
MaxAge == 2
\* _messageIntercept calls suspended at the same time
MaxBlobs == 1
\* reconnection attempts counted since the last reset of the delay
MaxAttempts == 7

\* ------------------------------------------------------------- universes
TimeUnit == {1000}
Unit == CHOOSE u \in TimeUnit : TRUE

AppCallbacks == {"cb1", "cb2"}
PassThruTypes == {"open", "close", "message"}
CustomTypes == {"_timeout", "_reconnect", "_receivedPing", "_sentPing", "_originalMessage"}
Types == PassThruTypes \cup CustomTypes
\* what the application registers and removes: <<type, callback>>
AppListeners == {<<"message", "cb1">>, <<"message", "cb2">>, <<"close", "cb1">>}

\* e.data of a MessageEvent: a string, an ArrayBuffer or a Blob; b0 is the first byte
Frames ==
  { [kind |-> "text", len |-> 1, b0 |-> 0],
    [kind |-> "arraybuffer", len |-> 1, b0 |-> 0],
    [kind |-> "arraybuffer", len |-> 1, b0 |-> 1],
    [kind |-> "blob", len |-> 1, b0 |-> 0],
    [kind |-> "blob", len |-> 1, b0 |-> 1],
    [kind |-> "blob", len |-> 2, b0 |-> 0] }
NoFrame == [kind |-> "none", len |-> 0, b0 |-> 0]

\* a binary frame of exactly one byte whose value is 0 (SocketBase.pingPayload)
IsPingPayload(f) == f.kind \in {"arraybuffer", "blob"} /\ f.len = 1 /\ f.b0 = 0

\* (min, max) reconnect delays an endpoint is constructed with
ClientOptions ==
  { [min |-> 250, max |-> 10000],
    [min |-> 750, max |-> 10000],
    [min |-> 250, max |-> 0 - 1] }

\* ---------------------------------------------------------------- numbers
Min(a, b) == IF a <= b THEN a ELSE b
Max(a, b) == IF a >= b THEN a ELSE b

RECURSIVE Gcd(_, _)
Gcd(a, b) == IF b = 0 THEN a ELSE Gcd(b, a % b)

\* a non-negative rational <<numerator, denominator>>, in lowest terms
Rat(n, d) == LET g == Gcd(n, d) IN IF g = 0 THEN <<0, 1>> ELSE <<n \div g, d \div g>>
RatFloor(r) == r[1] \div r[2]


\* ----------------------------------------------------------------- timers
\* a timer table: slot -> remaining ms, or -1 for a free slot
NoTimers == [i \in 1..MaxTimers |-> 0 - 1]
Pending(tm) == {i \in 1..MaxTimers : tm[i] >= 0}
HasFree(tm) == \E i \in 1..MaxTimers : tm[i] < 0
\* the slot setTimeout / setInterval takes: the lowest free one
FreeSlot(tm) ==
  IF HasFree(tm)
  THEN CHOOSE i \in 1..MaxTimers : tm[i] < 0 /\ \A j \in 1..MaxTimers : tm[j] < 0 => i <= j
  ELSE 1
\* ids held in a variable: 0 is null, -1 the id of a timer that is gone
NullID == 0
StaleID == 0 - 1
\* clearTimeout(id)
ClearTimer(tm, id) == IF id >= 1 THEN [tm EXCEPT ![id] = 0 - 1] ELSE tm
Elapse(tm, d) == [i \in 1..MaxTimers |-> IF tm[i] >= 0 THEN tm[i] - d ELSE tm[i]]

\* --------------------------------------------------------------- endpoint
(* An endpoint record e holds the fields of one SocketBase instance, the   *)
(* WebSocket objects it has been given or has constructed, and a log of    *)
(* what the running handler did (emitted, sent, calls, delivered, armed,   *)
(* scheduled, built), which is empty when an action's handler starts.       *)
(*                                                                         *)
(* readyState[s] is -1 while WebSocket s is not constructed, else the      *)
(* WebSocket readyState (0 CONNECTING, 1 OPEN, 3 CLOSED).  The listeners   *)
(* of a WebSocket are a set of <<type, callback>>: an EventTarget ignores  *)
(* a listener it already holds.                                            *)

NoCalls == [t \in Types |-> [c \in AppCallbacks |-> 0]]

\* the application's callbacks in a listener set are called once each
CallEach(e, type, cbs, f) ==
  [e EXCEPT !.calls[type] = [c \in AppCallbacks |-> IF c \in cbs THEN @[c] + 1 ELSE @[c]],
            !.delivered = IF type \in {"message", "_originalMessage"} /\ cbs \cap AppCallbacks # {}
                           THEN f ELSE @]

\* ------------------------------------------------ SocketBase: custom events
invokeEvent(e, type, f) ==
  IF type \in CustomTypes
  THEN LET e1 == CallEach(e, type, e.eventList[type], f)
       IN [e1 EXCEPT !.emitted = Append(@, type),
                     !.timeoutsSinceReconnect =
                        IF type = "_timeout" THEN Min(@ + 1, 2)
                        ELSE IF type = "_reconnect" THEN 0 ELSE @]
  ELSE e

\* ------------------------------------------------- SocketBase: ping handling
\* _missedPing that also gives the socket up
_missedPing_closes(e) ==
  LET e1 == IF e.socket # 0 THEN [e EXCEPT !.readyState[e.socket] = 2] ELSE e
  IN IF ~e1.isTimedOut
     THEN [invokeEvent(e1, "_timeout", NoFrame) EXCEPT !.isTimedOut = TRUE]
     ELSE e1

\* _missedPing that marks the endpoint without the _timeout event
_missedPing_quiet(e) == [e EXCEPT !.isTimedOut = TRUE]

_missedPing(e) ==
  IF ~e.isTimedOut
  THEN [invokeEvent(e, "_timeout", NoFrame) EXCEPT !.isTimedOut = TRUE]
  ELSE e

\* _handleReceivedPing without the _receivedPing event
SocketBase_handleReceivedPing_noEvent(e) ==
  IF e.isTimedOut
  THEN invokeEvent([e EXCEPT !.isTimedOut = FALSE], "_reconnect", NoFrame)
  ELSE e

SocketBase_handleReceivedPing(e) ==
  LET e1 == invokeEvent(e, "_receivedPing", NoFrame)
  IN IF e1.isTimedOut
     THEN invokeEvent([e1 EXCEPT !.isTimedOut = FALSE], "_reconnect", NoFrame)
     ELSE e1

_clearPingTimeout(e) ==
  IF e.awaitPingTimeoutID # NullID
  THEN [e EXCEPT !.pingTimers = ClearTimer(@, e.awaitPingTimeoutID),
                 !.awaitPingTimeoutID = NullID,
                 !.cleared = @ \/ e.awaitPingTimeoutID \in Pending(e.pingTimers)]
  ELSE e

\* _addPingTimeout without the call of _clearPingTimeout
_addPingTimeout_noClear(e, duration) ==
  LET id == FreeSlot(e.pingTimers)
  IN [e EXCEPT !.pingTimers[id] = Max(0, duration), !.awaitPingTimeoutID = id,
               !.armed = duration, !.overflow = @ \/ ~HasFree(e.pingTimers)]

_addPingTimeout(e, duration) ==
  LET e1 == _clearPingTimeout(e)
      id == FreeSlot(e1.pingTimers)
  IN [e1 EXCEPT !.pingTimers[id] = Max(0, duration), !.awaitPingTimeoutID = id,
                !.armed = duration, !.overflow = @ \/ ~HasFree(e1.pingTimers)]

\* sendPing without the readyState check: send() on null or on a connecting
\* WebSocket throws
SocketBase_sendPing_noCheck(e) ==
  IF e.socket = 0
  THEN [e EXCEPT !.thrown = TRUE]
  ELSE [e EXCEPT !.sent = @ + 1, !.thrown = e.readyState[e.socket] = 0]

SocketBase_sendPing(e) ==
  IF e.socket # 0 /\ e.readyState[e.socket] = 1
  THEN invokeEvent([e EXCEPT !.sent = @ + 1], "_sentPing", NoFrame)
  ELSE e

\* ------------------------------------------------ SocketBase: event handling
_addEvent(e, type, callback) ==
  LET e1 == IF type \notin CustomTypes /\ e.socket # 0
            THEN [e EXCEPT !.sockListeners[e.socket] = @ \cup {<<type, callback>>}]
            ELSE e
  IN [e1 EXCEPT !.eventList[type] = @ \cup {callback}]

_removeEvent(e, type, callback) ==
  LET e1 == IF type \notin CustomTypes /\ e.socket # 0
            THEN [e EXCEPT !.sockListeners[e.socket] = @ \ {<<type, callback>>}]
            ELSE e
  IN [e1 EXCEPT !.eventList[type] = @ \ {callback}]

addEventListener(e, type, callback) ==
  IF type = "message"
  THEN _addEvent(_addEvent(e, "_originalMessage", callback), type, "_messageIntercept")
  ELSE _addEvent(e, type, callback)

\* removeEventListener looking for _messageIntercept.bind(this, callback), a
\* function no registry entry and no WebSocket holds
removeEventListener_bind(e, type, callback) ==
  IF type = "message" THEN e ELSE _removeEvent(e, type, callback)

removeEventListener(e, type, callback) ==
  IF type = "message"
  THEN _removeEvent(_removeEvent(e, "_originalMessage", callback), type, "_messageIntercept")
  ELSE _removeEvent(e, type, callback)

_addEventsAgain(e) ==
  IF e.socket # 0
  THEN [e EXCEPT !.sockListeners[e.socket] =
          @ \cup UNION {{<<t, c>> : c \in e.eventList[t]} : t \in PassThruTypes}]
  ELSE e

\* ---------------------------------------------- ClientSocketBase: utility
\* send with `this.socket?.send(message)`: nothing happens without a socket
send_optional(e, message) ==
  IF e.socket = 0 THEN e
  ELSE [e EXCEPT !.passed = message, !.thrown = e.readyState[e.socket] = 0]

\* WebSocket.send throws while the WebSocket is still connecting
send(e, message) ==
  IF e.socket = 0
  THEN [e EXCEPT !.thrown = TRUE]
  ELSE [e EXCEPT !.passed = message, !.thrown = e.readyState[e.socket] = 0]

\* ------------------------------------------- ClientSocketBase: connection
\* the WebSocket object `new WebSocket(url)` creates next
\* (a closed WebSocket raises no further event, so its place is taken again)
Unused(e) == {s \in 1..MaxSockets : e.readyState[s] \in {0 - 1, 3}}
CanConstruct(e) == Unused(e) # {}
NewSocket(e) == CHOOSE s \in Unused(e) : \A r \in Unused(e) : s <= r

initializeConnection(e) ==
  LET s == NewSocket(e)
  IN _addEventsAgain([e EXCEPT !.socket = s, !.readyState[s] = 0,
                                !.sockListeners[s] = {}, !.built = @ + 1])

\* the options are class properties the application may assign at any time
setMinReconnectTimeoutDuration(e, val) ==
  [e EXCEPT !.minReconnectTimeoutDuration = val,
            !.reconfigured = @ \/ val # e.minReconnectTimeoutDuration]

setMaxReconnectTimeoutDuration(e, val) ==
  [e EXCEPT !.maxReconnectTimeoutDuration = val,
            !.reconfigured = @ \/ val # e.maxReconnectTimeoutDuration]

\* stopReconnectionAttempt resetting the delay to 0
stopReconnectionAttempt_zero(e) ==
  LET e1 == [e EXCEPT !.reconnectTimeoutDuration = 0, !.attempts = 0]
  IN IF e1.reconnectTimeoutID # NullID
     THEN [e1 EXCEPT !.reconnectTimers = ClearTimer(@, e1.reconnectTimeoutID),
                     !.reconnectTimeoutID = NullID]
     ELSE e1

stopReconnectionAttempt(e) ==
  LET e1 == [e EXCEPT !.reconnectTimeoutDuration = e.minReconnectTimeoutDuration,
                      !.attempts = 0]
  IN IF e1.reconnectTimeoutID # NullID
     THEN [e1 EXCEPT !.reconnectTimers = ClearTimer(@, e1.reconnectTimeoutID),
                     !.reconnectTimeoutID = NullID]
     ELSE e1

\* the callback without the cap at maxReconnectTimeoutDuration
reconnectCallback_noCap(e) ==
  [initializeConnection(e) EXCEPT
     !.reconnectTimeoutDuration = @ * 2,
     !.attempts = Min(@ + 1, MaxAttempts)]

\* the callback #trySocketReconnect hands to setTimeout
reconnectCallback(e) ==
  [initializeConnection(e) EXCEPT
     !.reconnectTimeoutDuration = Min(e.maxReconnectTimeoutDuration, @ * 2),
     !.attempts = Min(@ + 1, MaxAttempts)]

\* #trySocketReconnect without the test of maxReconnectTimeoutDuration
trySocketReconnect_noGuard(e) ==
  LET id == FreeSlot(e.reconnectTimers)
  IN [e EXCEPT !.reconnectTimers[id] = Max(0, e.reconnectTimeoutDuration),
               !.reconnectTimeoutID = id,
               !.scheduled = e.reconnectTimeoutDuration,
               !.overflow = @ \/ ~HasFree(e.reconnectTimers)]

trySocketReconnect(e) ==
  IF e.maxReconnectTimeoutDuration >= 0
  THEN LET id == FreeSlot(e.reconnectTimers)
       IN [e EXCEPT !.reconnectTimers[id] = Max(0, e.reconnectTimeoutDuration),
                    !.reconnectTimeoutID = id,
                    !.scheduled = e.reconnectTimeoutDuration,
                    !.overflow = @ \/ ~HasFree(e.reconnectTimers)]
  ELSE e

\* _socketClosed without the call of #trySocketReconnect
ClientSocketBase_socketClosed_noRetry(e) == _clearPingTimeout(e)

ClientSocketBase_socketClosed(e) == _clearPingTimeout(trySocketReconnect(e))

ClientSocketBase_socketConnected(e) ==
  [stopReconnectionAttempt(e) EXCEPT !.isTimedOut = FALSE]

\* ------------------------------------------ ClientSocketBase: ping handling
resetTimings(e) == [e EXCEPT !.pingSetup = 0, !.updates = 0]

\* medianPingInterval * 1.2, as the whole milliseconds setTimeout waits
PingWindow(median) == RatFloor(Rat(median[1] * 6, median[2] * 5))

\* #setTimings that arms the timeout as soon as medianPingInterval is set
setTimings_eager(e, timeElapsed) ==
  IF e.pingSetup = 0
  THEN [e EXCEPT !.pingSetup = @ + 1, !.updates = 0]
  ELSE LET m == e.medianPingInterval
           avg == IF e.pingSetup = 1 THEN Rat(timeElapsed, 1)
                  ELSE Rat(m[1] * 4 + timeElapsed * 1 * m[2], 5 * m[2])
       IN _addPingTimeout([e EXCEPT !.medianPingInterval = avg,
                                    !.pingSetup = 2,
                                    !.updates = IF avg = m \/ e.pingSetup = 1 THEN @ ELSE @ + 1],
                          PingWindow(avg))

setTimings(e, timeElapsed) ==
  IF e.pingSetup <= 1
  THEN [e EXCEPT !.medianPingInterval = IF e.pingSetup = 1 THEN Rat(timeElapsed, 1) ELSE @,
                 !.pingSetup = @ + 1, !.updates = 0]
  ELSE LET m == e.medianPingInterval
           avg == Rat(m[1] * 4 + timeElapsed * 1 * m[2], 5 * m[2])
       IN _addPingTimeout([e EXCEPT !.medianPingInterval = avg,
                                    !.updates = IF avg = m THEN @ ELSE @ + 1],
                          PingWindow(avg))

\* (the model lets heartbeats arrive whole time units apart)
ClientSocketBase_handleReceivedPing(e) ==
  LET e1 == IF e.isTimedOut THEN resetTimings(e) ELSE setTimings(e, e.sinceLastPing)
      e2 == [e1 EXCEPT !.sinceLastPing = 0, !.downtime = FALSE,
                       !.overflow = @ \/ e.sinceLastPing % Unit # 0]
  IN SocketBase_handleReceivedPing(SocketBase_sendPing(e2))

\* ------------------------------------------------------- ServerSocketBase
stopPingImmediately(e) ==
  LET e1 == IF e.pingIntervalID # NullID
            THEN [e EXCEPT !.intervalTimers = ClearTimer(@, e.pingIntervalID),
                           !.pingIntervalID = NullID]
            ELSE e
  IN [e1 EXCEPT !.pingIntervalHasChanged = FALSE, !.retimed = 0]

startPingInterval(e) ==
  IF e.pingInterval > 0
  THEN LET id == FreeSlot(e.intervalTimers)
       IN [e EXCEPT !.intervalTimers[id] = e.pingInterval,
                    !.intervalPeriod[id] = e.pingInterval,
                    !.pingIntervalID = id,
                    !.overflow = @ \/ ~HasFree(e.intervalTimers)]
  ELSE e

restartPingInterval(e) == startPingInterval(stopPingImmediately(e))

setPingInterval(e, val) ==
  LET currentVal == e.pingInterval
  IN IF val # currentVal
     THEN LET running == e.pingIntervalID >= 1 /\ e.intervalTimers[e.pingIntervalID] >= 0
              e1 == [e EXCEPT !.pingIntervalHasChanged = TRUE, !.pingInterval = val,
                              !.retimed = IF currentVal > 0 /\ running
                                          THEN (IF @ > 0 THEN @ ELSE currentVal) ELSE 0]
          IN IF currentVal = 0 THEN startPingInterval(e1) ELSE e1
     ELSE e

ServerSocketBase_socketClosed(e) == stopPingImmediately(e)

ServerSocketBase_socketConnected(e) == startPingInterval(e)

\* _handleReceivedPing without the call of _clearPingTimeout
ServerSocketBase_handleReceivedPing_noClear(e) ==
  [SocketBase_handleReceivedPing(e) EXCEPT !.unanswered = 0 - 1]

ServerSocketBase_handleReceivedPing(e) ==
  [_clearPingTimeout(SocketBase_handleReceivedPing(e)) EXCEPT !.unanswered = 0 - 1]

ServerSocketBase_sendPing(e) ==
  LET e1 == SocketBase_sendPing(e)
      e2 == IF e1.pingIntervalHasChanged THEN restartPingInterval(e1) ELSE e1
      e3 == _addPingTimeout(e2, e2.pingTimeout)
  IN [e3 EXCEPT !.unanswered = IF e3.sent > 0 /\ @ < 0 THEN 0 ELSE @,
                !.retimed = IF e.retimed # 0 THEN 0 - 1 ELSE 0]

\* ------------------------------------------------ the overridden methods
sendPing(e) ==
  IF e.role = "client" THEN SocketBase_sendPing(e)
  ELSE ServerSocketBase_sendPing(e)

_handleReceivedPing(e) ==
  IF e.role = "client" THEN ClientSocketBase_handleReceivedPing(e)
  ELSE ServerSocketBase_handleReceivedPing(e)

_socketClosed(e) ==
  IF e.role = "client" THEN ClientSocketBase_socketClosed(e)
  ELSE ServerSocketBase_socketClosed(e)

_socketConnected(e) ==
  IF e.role = "client" THEN ClientSocketBase_socketConnected(e)
  ELSE ServerSocketBase_socketConnected(e)

\* ---------------------------------------------- SocketBase: message filter
\* _messageIntercept without the `return` after _handleReceivedPing()
_messageInterceptTail_noReturn(e, f, hasPingDataArr) ==
  invokeEvent(IF hasPingDataArr /\ f.b0 = 0 THEN _handleReceivedPing(e) ELSE e,
              "_originalMessage", f)

\* _messageIntercept once pingDataArr is known (after the await, for a Blob)
_messageInterceptTail(e, f, hasPingDataArr) ==
  IF hasPingDataArr /\ f.b0 = 0
  THEN _handleReceivedPing(e)
  ELSE invokeEvent(e, "_originalMessage", f)

\* a Blob of size 1 suspends the handler at `await e.data.arrayBuffer()`
_messageIntercept(e, f) ==
  IF f.kind = "blob" /\ f.len = 1
  THEN [e EXCEPT !.pendingBlob = Append(@, f)]
  ELSE _messageInterceptTail(e, f, f.kind = "arraybuffer" /\ f.len = 1)

\* ------------------------------------------------------------- WebSocket
\* WebSocket s dispatches an event of the given type to its listeners
dispatchEvent(e, s, type, f) ==
  LET cbs == {l[2] : l \in {x \in e.sockListeners[s] : x[1] = type}}
      e1 == IF "_socketConnected" \in cbs THEN _socketConnected(e) ELSE e
      e2 == IF "_socketClosed" \in cbs THEN _socketClosed(e1) ELSE e1
      e3 == IF "_messageIntercept" \in cbs THEN _messageIntercept(e2, f) ELSE e2
  IN CallEach(e3, type, cbs \cap AppCallbacks, f)

\* ------------------------------------------------------------------ state
VARIABLES
  role,                        \* "client" (ClientSocketBase) or "server" (ServerSocketBase)
  socket,                      \* SocketBase.socket: 0 is null, else a WebSocket
  readyState,                  \* WebSocket.readyState of every WebSocket
  sockListeners,               \* the listeners every WebSocket holds
  eventList,                   \* SocketBase.#eventList
  isTimedOut,                  \* SocketBase.isTimedOut
  awaitPingTimeoutID,          \* SocketBase.#awaitPingTimeoutID
  pingTimers,                  \* pending setTimeout(_missedPing) timers
  pendingBlob,                 \* _messageIntercept calls suspended at the await
  reconnectTimeoutID,          \* ClientSocketBase.#reconnectTimeoutID
  reconnectTimers,             \* pending setTimeout timers of #trySocketReconnect
  reconnectTimeoutDuration,    \* ClientSocketBase.#reconnectTimeoutDuration
  minReconnectTimeoutDuration,
  maxReconnectTimeoutDuration,
  pingSetup,                   \* ClientSocketBase.#pingSetup
  sinceLastPing,               \* now - #lastPingTimestamp, measured up to MaxAge units
  medianPingInterval,          \* ClientSocketBase.medianPingInterval, a rational
  pingIntervalHasChanged,      \* ServerSocketBase.#pingIntervalHasChanged
  pingIntervalID,              \* ServerSocketBase.#pingIntervalID
  pingInterval,                \* ServerSocketBase.#pingInterval
  pingTimeout,                 \* ServerSocketBase.pingTimeout
  intervalTimers,              \* running setInterval(sendPing) timers: time to the next run
  intervalPeriod,              \* their periods
  attempts,                    \* history: reconnect callbacks run since the delay was reset
  updates,                     \* history: changes of medianPingInterval since it was seeded
  timeoutsSinceReconnect,      \* history: _timeout emitted since the last _reconnect
  unanswered,                  \* history: age of the oldest ping sent and not answered, or -1
  reconfigured,                \* history: min- or maxReconnectTimeoutDuration was assigned
  downtime,                    \* history: the client's socket closed since the last ping was handled
  retimed,                     \* history: the pingInterval that was replaced while its timer
                               \* ran; -1 once the timer has sent its next ping; else 0
  last                         \* the operation that ran last and what it did

vars == <<role, socket, readyState, sockListeners, eventList, isTimedOut,
          awaitPingTimeoutID, pingTimers, pendingBlob, reconnectTimeoutID,
          reconnectTimers, reconnectTimeoutDuration, minReconnectTimeoutDuration,
          maxReconnectTimeoutDuration, pingSetup, sinceLastPing, medianPingInterval,
          pingIntervalHasChanged, pingIntervalID, pingInterval, pingTimeout,
          intervalTimers, intervalPeriod, attempts, updates, timeoutsSinceReconnect,
          unanswered, reconfigured, downtime, retimed, last>>

\* the fields of the endpoint and its timers and WebSockets, without the histories
fields == <<role, socket, readyState, sockListeners, eventList, isTimedOut,
            awaitPingTimeoutID, pingTimers, pendingBlob, reconnectTimeoutID,
            reconnectTimers, reconnectTimeoutDuration, minReconnectTimeoutDuration,
            maxReconnectTimeoutDuration, pingSetup, sinceLastPing, medianPingInterval,
            pingIntervalHasChanged, pingIntervalID, pingInterval, pingTimeout,
            intervalTimers, intervalPeriod>>

\* the endpoint as a record, with an empty log
Ep ==
  [role |-> role, socket |-> socket, readyState |-> readyState,
   sockListeners |-> sockListeners, eventList |-> eventList, isTimedOut |-> isTimedOut,
   awaitPingTimeoutID |-> awaitPingTimeoutID, pingTimers |-> pingTimers,
   pendingBlob |-> pendingBlob, reconnectTimeoutID |-> reconnectTimeoutID,
   reconnectTimers |-> reconnectTimers,
   reconnectTimeoutDuration |-> reconnectTimeoutDuration,
   minReconnectTimeoutDuration |-> minReconnectTimeoutDuration,
   maxReconnectTimeoutDuration |-> maxReconnectTimeoutDuration,
   pingSetup |-> pingSetup, sinceLastPing |-> sinceLastPing,
   medianPingInterval |-> medianPingInterval,
   pingIntervalHasChanged |-> pingIntervalHasChanged, pingIntervalID |-> pingIntervalID,
   pingInterval |-> pingInterval, pingTimeout |-> pingTimeout,
   intervalTimers |-> intervalTimers, intervalPeriod |-> intervalPeriod,
   attempts |-> attempts, updates |-> updates,
   timeoutsSinceReconnect |-> timeoutsSinceReconnect, unanswered |-> unanswered,
   reconfigured |-> reconfigured, downtime |-> downtime, retimed |-> retimed,
   emitted |-> <<>>, sent |-> 0, calls |-> NoCalls, delivered |-> NoFrame,
   armed |-> 0 - 1, scheduled |-> 0 - 1, built |-> 0, thrown |-> FALSE,
   passed |-> NoFrame, cleared |-> FALSE, overflow |-> FALSE]

NoLast ==
  [op |-> "new", sock |-> 0, type |-> "", frame |-> NoFrame, cb |-> "",
   emitted |-> <<>>, sent |-> 0, calls |-> NoCalls, delivered |-> NoFrame,
   armed |-> 0 - 1, scheduled |-> 0 - 1, built |-> 0, thrown |-> FALSE,
   passed |-> NoFrame, cleared |-> FALSE, registered |-> FALSE, changed |-> FALSE]

\* A closed WebSocket raises no further event: its listeners are dropped with it,
\* and the object itself once the endpoint no longer refers to it.
Collect(e) ==
  [e EXCEPT !.sockListeners = [s \in 1..MaxSockets |-> IF e.readyState[s] = 3 THEN {} ELSE @[s]],
            !.readyState = [s \in 1..MaxSockets |->
                              IF @[s] = 3 /\ s # e.socket THEN 0 - 1 ELSE @[s]]]

\* the handler's result becomes the next state, unless it leaves the bounds
Commit(e0, op, s, type, f, cb) ==
  \E e \in {Collect(e0)} :
  /\ ~e.overflow
  /\ e.updates <= MaxUpdates
  /\ Len(e.pendingBlob) <= MaxBlobs
  /\ role' = e.role
  /\ socket' = e.socket
  /\ readyState' = e.readyState
  /\ sockListeners' = e.sockListeners
  /\ eventList' = e.eventList
  /\ isTimedOut' = e.isTimedOut
  /\ awaitPingTimeoutID' = e.awaitPingTimeoutID
  /\ pingTimers' = e.pingTimers
  /\ pendingBlob' = e.pendingBlob
  /\ reconnectTimeoutID' = e.reconnectTimeoutID
  /\ reconnectTimers' = e.reconnectTimers
  /\ reconnectTimeoutDuration' = e.reconnectTimeoutDuration
  /\ minReconnectTimeoutDuration' = e.minReconnectTimeoutDuration
  /\ maxReconnectTimeoutDuration' = e.maxReconnectTimeoutDuration
  /\ pingSetup' = e.pingSetup
  /\ sinceLastPing' = e.sinceLastPing
  /\ medianPingInterval' = e.medianPingInterval
  /\ pingIntervalHasChanged' = e.pingIntervalHasChanged
  /\ pingIntervalID' = e.pingIntervalID
  /\ pingInterval' = e.pingInterval
  /\ pingTimeout' = e.pingTimeout
  /\ intervalTimers' = e.intervalTimers
  /\ intervalPeriod' = e.intervalPeriod
  /\ attempts' = e.attempts
  /\ updates' = e.updates
  /\ timeoutsSinceReconnect' = e.timeoutsSinceReconnect
  /\ unanswered' = e.unanswered
  /\ reconfigured' = e.reconfigured
  /\ downtime' = e.downtime
  /\ retimed' = e.retimed
  /\ last' = [op |-> op, sock |-> s, type |-> type, frame |-> f, cb |-> cb,
              emitted |-> e.emitted, sent |-> e.sent, calls |-> e.calls,
              delivered |-> e.delivered, armed |-> e.armed,
              scheduled |-> e.scheduled, built |-> e.built, thrown |-> e.thrown,
              passed |-> e.passed, cleared |-> e.cleared,
              \* was cb a listener of this type before the call, and did the call
              \* change the registry or the listeners of a WebSocket
              registered |-> /\ cb # ""
                             /\ cb \in eventList[IF type = "message" THEN "_originalMessage"
                                                  ELSE type],
              changed |-> e0.eventList # eventList \/ e0.sockListeners # sockListeners]

\* ------------------------------------------------------------------- Init
ServerOptions ==
  {[pingInterval |-> i, pingTimeout |-> t] : i \in {0, 1000, 2000}, t \in {1500, 3000}}
\* values the application assigns to pingInterval
PingIntervals == {0, 1000, 2000}

Constructed(e) ==
  /\ role = e.role /\ socket = e.socket /\ readyState = e.readyState
  /\ sockListeners = e.sockListeners /\ eventList = e.eventList
  /\ isTimedOut = FALSE /\ awaitPingTimeoutID = NullID /\ pingTimers = NoTimers
  /\ pendingBlob = <<>> /\ reconnectTimeoutID = NullID /\ reconnectTimers = NoTimers
  /\ reconnectTimeoutDuration = e.minReconnectTimeoutDuration
  /\ minReconnectTimeoutDuration = e.minReconnectTimeoutDuration
  /\ maxReconnectTimeoutDuration = e.maxReconnectTimeoutDuration
  /\ pingSetup = 0 /\ sinceLastPing = MaxAge * Unit /\ medianPingInterval = <<0, 1>>
  /\ pingIntervalHasChanged = e.pingIntervalHasChanged /\ pingIntervalID = NullID
  /\ pingInterval = e.pingInterval /\ pingTimeout = e.pingTimeout
  /\ intervalTimers = NoTimers /\ intervalPeriod = [i \in 1..MaxTimers |-> 0]
  /\ attempts = 0 /\ updates = 0 /\ timeoutsSinceReconnect = 0 /\ unanswered = 0 - 1
  /\ reconfigured = FALSE /\ downtime = FALSE /\ retimed = 0
  /\ last = NoLast

ownListeners ==
  [t \in Types |-> IF t = "open" THEN {"_socketConnected"}
                   ELSE IF t = "close" THEN {"_socketClosed"} ELSE {}]

\* new ClientSocketBase(url, o): no WebSocket yet, the two own listeners cached
ClientSocketBase(o) ==
  [role |-> "client", socket |-> 0,
   readyState |-> [s \in 1..MaxSockets |-> 0 - 1],
   sockListeners |-> [s \in 1..MaxSockets |-> {}],
   eventList |-> ownListeners,
   minReconnectTimeoutDuration |-> o.min, maxReconnectTimeoutDuration |-> o.max,
   pingIntervalHasChanged |-> FALSE, pingInterval |-> 0, pingTimeout |-> 0]

\* new ServerSocketBase(socket, o): the given WebSocket is connecting or open;
\* the setter sees #pingInterval undefined, so it records a change and starts nothing
ServerSocketBase(o, state) ==
  [role |-> "server", socket |-> 1,
   readyState |-> [s \in 1..MaxSockets |-> IF s = 1 THEN state ELSE 0 - 1],
   sockListeners |-> [s \in 1..MaxSockets |->
                        IF s = 1 THEN {<<"open", "_socketConnected">>, <<"close", "_socketClosed">>}
                        ELSE {}],
   eventList |-> ownListeners,
   minReconnectTimeoutDuration |-> 0, maxReconnectTimeoutDuration |-> 0,
   pingIntervalHasChanged |-> TRUE, pingInterval |-> o.pingInterval,
   pingTimeout |-> o.pingTimeout]

\* a client that never reconnects on its own, listening for messages
Init ==
  \E o \in {p \in ClientOptions : p.max < 0} :
    Constructed(addEventListener(ClientSocketBase(o), "message", "cb1"))

\* a client that never reconnects on its own
InitEvents ==
  \E o \in {p \in ClientOptions : p.max < 0} : Constructed(ClientSocketBase(o))

\* a client of any configuration
InitBackoff == \E o \in ClientOptions : Constructed(ClientSocketBase(o))

\* a client that reconnects on its own
InitRetry == \E o \in {p \in ClientOptions : p.max >= 0} : Constructed(ClientSocketBase(o))

\* (min, max) delays of the endpoints whose delay is watched, and the values
\* the application assigns to either at run time
DelayOptions ==
  { [min |-> 250, max |-> 1000],
    [min |-> 0, max |-> 1000],
    [min |-> 750, max |-> 500],
    [min |-> 250, max |-> 0] }
Delays == {250, 1000}

InitDelays == \E o \in DelayOptions : Constructed(ClientSocketBase(o))

\* a server listening for messages
InitServer ==
  \E o \in ServerOptions : \E state \in {0, 1} :
    Constructed(addEventListener(ServerSocketBase(o, state), "message", "cb1"))

\* ---------------------------------------------------------------- actions
\* calls of the application
AddEventListener ==
  \E l \in AppListeners :
    Commit(addEventListener(Ep, l[1], l[2]), "addEventListener", socket, l[1], NoFrame, l[2])

RemoveEventListener ==
  \E l \in AppListeners :
    Commit(removeEventListener(Ep, l[1], l[2]), "removeEventListener", socket, l[1], NoFrame, l[2])

InitializeConnection ==
  /\ role = "client"
  /\ CanConstruct(Ep)
  /\ Commit(initializeConnection(Ep), "initializeConnection", socket, "", NoFrame, "")

\* the application connects while a WebSocket is left for every pending attempt
Connect ==
  /\ Cardinality(Unused(Ep)) > Cardinality(Pending(reconnectTimers))
  /\ InitializeConnection

Send ==
  /\ role = "client"
  /\ \E message \in Frames : Commit(send(Ep, message), "send", socket, "", message, "")

SetMinReconnectTimeoutDuration ==
  /\ role = "client"
  /\ \E val \in Delays :
       Commit(setMinReconnectTimeoutDuration(Ep, val), "minReconnectTimeoutDuration",
              socket, "", NoFrame, "")

SetMaxReconnectTimeoutDuration ==
  /\ role = "client"
  /\ \E val \in Delays :
       Commit(setMaxReconnectTimeoutDuration(Ep, val), "maxReconnectTimeoutDuration",
              socket, "", NoFrame, "")

\* the application calls sendPing() itself
SendPing ==
  Commit(sendPing(Ep), "sendPing", socket, "", NoFrame, "")

StopReconnectionAttempt ==
  /\ role = "client"
  /\ Commit(stopReconnectionAttempt(Ep), "stopReconnectionAttempt", socket, "", NoFrame, "")

SetPingInterval ==
  /\ role = "server"
  /\ \E val \in PingIntervals :
       Commit(setPingInterval(Ep, val), "pingInterval", socket, "", NoFrame, "")

StopPingImmediately ==
  /\ role = "server"
  /\ Commit(stopPingImmediately(Ep), "stopPingImmediately", socket, "", NoFrame, "")

RestartPingInterval ==
  /\ role = "server"
  /\ Commit(restartPingInterval(Ep), "restartPingInterval", socket, "", NoFrame, "")

\* events of a WebSocket, the current one or one that was replaced
SocketOpen ==
  \E s \in 1..MaxSockets :
    /\ readyState[s] = 0
    /\ Commit(dispatchEvent([Ep EXCEPT !.readyState[s] = 1], s, "open", NoFrame),
              "open", s, "open", NoFrame, "")

SocketClose ==
  \E s \in 1..MaxSockets :
    /\ readyState[s] \in {0, 1}
    /\ Commit(dispatchEvent([Ep EXCEPT !.readyState[s] = 3, !.unanswered = 0 - 1,
                                     !.downtime = @ \/ (role = "client" /\ s = socket)],
                            s, "close", NoFrame),
              "close", s, "close", NoFrame, "")

SocketMessage ==
  \E s \in 1..MaxSockets : \E f \in Frames :
    /\ readyState[s] = 1
    /\ Commit(dispatchEvent(Ep, s, "message", f), "message", s, "message", f, "")

\* the backend receives binary data as an ArrayBuffer, never as a Blob
ServerMessage ==
  \E s \in 1..MaxSockets : \E f \in {g \in Frames : g.kind # "blob"} :
    /\ readyState[s] = 1
    /\ Commit(dispatchEvent(Ep, s, "message", f), "message", s, "message", f, "")

\* e.data.arrayBuffer() resolves and the suspended _messageIntercept goes on
ResumeIntercept ==
  /\ pendingBlob # <<>>
  /\ Commit(_messageInterceptTail([Ep EXCEPT !.pendingBlob = Tail(@)], Head(pendingBlob), TRUE),
            "resume", socket, "message", Head(pendingBlob), "")

\* timers that are due
MissedPingFire ==
  \E i \in 1..MaxTimers :
    /\ pingTimers[i] = 0
    /\ Commit(_missedPing([Ep EXCEPT !.pingTimers[i] = 0 - 1,
                                     !.awaitPingTimeoutID = IF @ = i THEN StaleID ELSE @]),
              "_missedPing", socket, "", NoFrame, "")

ReconnectFire ==
  \E i \in 1..MaxTimers :
    /\ reconnectTimers[i] = 0
    /\ CanConstruct(Ep)
    /\ Commit(reconnectCallback([Ep EXCEPT !.reconnectTimers[i] = 0 - 1,
                                           !.reconnectTimeoutID = IF @ = i THEN StaleID ELSE @]),
              "reconnect", socket, "", NoFrame, "")

IntervalFire ==
  \E i \in 1..MaxTimers :
    /\ intervalTimers[i] = 0
    /\ Commit(ServerSocketBase_sendPing([Ep EXCEPT !.intervalTimers[i] = intervalPeriod[i]]),
              "sendPing", socket, "", NoFrame, "")

\* time passes, up to the next due timer
NextDue ==
  LET rems == {pingTimers[i] : i \in Pending(pingTimers)}
                \cup {reconnectTimers[i] : i \in Pending(reconnectTimers)}
                \cup {intervalTimers[i] : i \in Pending(intervalTimers)}
  IN IF rems = {} THEN 0 - 1 ELSE CHOOSE r \in rems : \A q \in rems : r <= q

Tick ==
  \E d \in TimeUnit \cup {NextDue} :
    /\ d > 0
    /\ NextDue >= 0 => d <= NextDue
    /\ Commit([Ep EXCEPT !.pingTimers = Elapse(@, d),
                         !.reconnectTimers = Elapse(@, d),
                         !.intervalTimers = Elapse(@, d),
                         !.sinceLastPing = Min(@ + d, MaxAge * Unit),
                         !.unanswered = IF @ >= 0 THEN Min(@ + d, (MaxAge + 2) * Unit) ELSE @],
              "tick", socket, "", NoFrame, "")

\* ---------------------------------------------------------- specifications
\* the responsive endpoint: heartbeats, timeouts, closes and replaced transports
Next ==
  \/ InitializeConnection
  \/ SocketOpen
  \/ SocketClose
  \/ SocketMessage
  \/ ResumeIntercept
  \/ MissedPingFire
  \/ Tick

Spec == Init /\ [][Next]_vars

\* the event multiplexer: listeners, frames and transport replacement
NextEvents ==
  \/ AddEventListener
  \/ RemoveEventListener
  \/ Send
  \/ SendPing
  \/ InitializeConnection
  \/ SocketOpen
  \/ SocketClose
  \/ SocketMessage
  \/ ResumeIntercept

SpecEvents == InitEvents /\ [][NextEvents]_vars

\* the reconnection controller
NextBackoff ==
  \/ InitializeConnection
  \/ StopReconnectionAttempt
  \/ SocketOpen
  \/ SocketClose
  \/ ReconnectFire
  \/ Tick

SpecBackoff == InitBackoff /\ [][NextBackoff]_vars

\* the reconnection controller of an endpoint whose options are assigned at run time
NextDelays ==
  \/ InitializeConnection
  \/ SetMinReconnectTimeoutDuration
  \/ SetMaxReconnectTimeoutDuration
  \/ StopReconnectionAttempt
  \/ SocketOpen
  \/ SocketClose
  \/ ReconnectFire
  \/ Tick

SpecDelays == InitDelays /\ [][NextDelays]_vars

\* the reconnection controller with its timers running: time passes and a due
\* timer's callback runs
NextRetry ==
  \/ Connect
  \/ StopReconnectionAttempt
  \/ SocketOpen
  \/ SocketClose
  \/ ReconnectFire
  \/ Tick

SpecRetry ==
  InitRetry /\ [][NextRetry]_vars /\ WF_vars(Tick) /\ WF_vars(ReconnectFire)

\* the initiating endpoint
NextServer ==
  \/ SetPingInterval
  \/ StopPingImmediately
  \/ RestartPingInterval
  \/ SocketOpen
  \/ SocketClose
  \/ ServerMessage
  \/ MissedPingFire
  \/ IntervalFire
  \/ Tick

SpecServer == InitServer /\ [][NextServer]_vars

TypeOK ==
  /\ role \in {"client", "server"}
  /\ socket \in 0..MaxSockets
  /\ isTimedOut \in BOOLEAN
  /\ pingSetup \in 0..2

\* ------------------------------------------------------------------ claims
\* what the handlers of the last step emitted, as a set
Emitted == {last.emitted[i] : i \in 1..Len(last.emitted)}
\* the last step was the arrival of frame f whose handling has run to its end:
\* a one-byte Blob is handled when its content has been read
Handled(f) ==
  \/ last.op = "message" /\ last.frame = f /\ ~(f.kind = "blob" /\ f.len = 1)
  \/ last.op = "resume" /\ last.frame = f

\* C1: at most one _timeout is emitted between two consecutive _reconnect
\* notifications, and at most one before the first _reconnect.
C1_OneTimeoutPerOutage == timeoutsSinceReconnect <= 1

\* C2: no listener registered through addEventListener('message', cb) is ever
\* invoked with a binary frame of length 1 whose byte is 0, with any number of
\* message listeners and also after the transport was replaced.
C2_PingNeverDelivered ==
  /\ ~IsPingPayload(last.delivered)
  /\ \A f \in Frames : Handled(f) /\ IsPingPayload(f) =>
       \A c \in AppCallbacks : last.calls["message"][c] = 0 /\ last.calls["_originalMessage"][c] = 0

\* a ping frame read from a Blob reached the ping handler instead of the two
\* registered message listeners, on a WebSocket that replaced another one
C2_Witness ==
  /\ last.op = "resume" /\ IsPingPayload(last.frame)
  /\ "_receivedPing" \in Emitted
  /\ eventList["_originalMessage"] = {"cb1", "cb2"}
  /\ socket = 2 /\ readyState[1] = 1 /\ readyState[2] = 1

\* C3: a listener registered for a pass-through type, and not removed, is invoked
\* exactly once for every event of that type the current WebSocket raises, also
\* when the WebSocket was constructed after the listener was registered.
C3_ListenerFollowsSocket ==
  /\ last.op \in {"open", "close"} /\ last.sock = socket =>
       \A c \in AppCallbacks :
         last.calls[last.type][c] = IF c \in eventList[last.type] THEN 1 ELSE 0
  /\ \A f \in Frames :
       Handled(f) /\ ~IsPingPayload(f) /\ last.sock = socket =>
         \A c \in AppCallbacks :
           last.calls["_originalMessage"][c] =
             IF c \in eventList["_originalMessage"] THEN 1 ELSE 0

\* C4: on a ClientSocketBase whose WebSocket is open, every inbound ping frame
\* makes the endpoint send exactly one ping frame back, with no, one or several
\* message listeners registered.
C4_EveryPingAnswered ==
  /\ role = "client" /\ last.op = "message" /\ IsPingPayload(last.frame)
       /\ last.sock = socket /\ readyState[socket] = 1 =>
          \/ last.sent = 1
          \/ last.frame.kind = "blob" /\ pendingBlob # <<>> /\ last.sent = 0
  /\ role = "client" /\ last.op = "resume" /\ IsPingPayload(last.frame)
       /\ socket # 0 /\ readyState[socket] = 1 => last.sent = 1

\* 2^n
RECURSIVE Pow2(_)
Pow2(n) == IF n = 0 THEN 1 ELSE 2 * Pow2(n - 1)

\* C5: with minReconnectTimeoutDuration = 250 and maxReconnectTimeoutDuration =
\* 10000, after n reconnection attempts in a row #reconnectTimeoutDuration is
\* min(10000, 250 * 2^n), a close schedules the next attempt with that delay,
\* and after an open event the delay is 250 again.
C5_DelayDoubles ==
  minReconnectTimeoutDuration = 250 /\ maxReconnectTimeoutDuration = 10000 =>
    /\ reconnectTimeoutDuration = Min(10000, 250 * Pow2(attempts))
    /\ last.op = "close" => last.scheduled = Min(10000, 250 * Pow2(attempts))
    /\ last.op = "open" => reconnectTimeoutDuration = 250

\* the seventh attempt in a row is scheduled, with the delay at its cap
C5_Witness ==
  /\ minReconnectTimeoutDuration = 250 /\ maxReconnectTimeoutDuration = 10000
  /\ attempts = 6 /\ last.op = "close" /\ last.scheduled = 10000

\* C6: with maxReconnectTimeoutDuration < 0 a close event schedules no
\* reconnection attempt: none is ever pending and the controller never
\* constructs a WebSocket, however many close events occur.
C6_NoReconnectWhenDisabled ==
  maxReconnectTimeoutDuration < 0 =>
    /\ reconnectTimers = NoTimers
    /\ reconnectTimeoutID = NullID
    /\ last.op # "reconnect"
    /\ last.op = "close" => last.scheduled < 0 /\ last.built = 0

\* the second of two WebSockets closes on an endpoint that never reconnects
C6_Witness ==
  /\ maxReconnectTimeoutDuration < 0
  /\ last.op = "close" /\ last.sock = 2 /\ readyState[1] = 0 - 1

\* C7: with maxReconnectTimeoutDuration >= 0, a close event leaves a reconnection
\* attempt pending with delay #reconnectTimeoutDuration, and unless
\* stopReconnectionAttempt runs first the WebSocket is eventually constructed
\* again; every further close schedules a further attempt.
C7_CloseSchedules ==
  last.op = "close" =>
    /\ last.scheduled = reconnectTimeoutDuration
    /\ reconnectTimeoutID >= 1
    /\ reconnectTimers[reconnectTimeoutID] = reconnectTimeoutDuration

C7_RetryNeverStops ==
  /\ []C7_CloseSchedules
  /\ (reconnectTimeoutID >= 1) ~>
     (\/ last.op = "reconnect" /\ last.built = 1
      \/ last.op = "stopReconnectionAttempt"
      \/ last.op = "open")

\* the WebSocket built by the second attempt in a row has closed, and a third
\* attempt is pending
C7_Witness ==
  /\ attempts = 2 /\ last.op = "close" /\ last.scheduled = reconnectTimeoutDuration
  /\ Pending(reconnectTimers) = {reconnectTimeoutID}

\* C8: on a ServerSocketBase with an open WebSocket and pingInterval > 0 whose
\* peer never answers, isTimedOut is true once pingTimeout has passed since a
\* ping was sent, for every positive pingInterval and pingTimeout.
C8_SilentPeerTimesOut ==
  /\ role = "server" /\ socket # 0 /\ readyState[socket] = 1
  /\ pingInterval > 0 /\ unanswered > pingTimeout
  => isTimedOut

\* C9: with pings arriving every 1000 ms, from the third ping on
\* medianPingInterval is 1000 and the timeout armed after each ping is 1250 ms.
C9_WindowIs1250 ==
  /\ role = "client" /\ last.op \in {"message", "resume"} /\ IsPingPayload(last.frame)
  /\ last.armed >= 0 /\ medianPingInterval = <<1000, 1>>
  => last.armed = 1250

\* C10: removeEventListener(type, callback) for a callback that was never added
\* to that type raises nothing, emits nothing and leaves the registry and the
\* listeners of the WebSocket as they were, for every type including message.
C10_RemoveUnknownIsNoOp ==
  last.op = "removeEventListener" /\ ~last.registered =>
    ~last.changed /\ last.emitted = <<>> /\ ~last.thrown

\* C11: send(message) on an endpoint with no WebSocket throws to the caller and
\* changes no field of the endpoint; with a WebSocket it hands the message to
\* WebSocket.send as it is.
C11_SendStep ==
  last'.op = "send" =>
    IF socket = 0
    THEN last'.thrown /\ last'.passed = NoFrame /\ UNCHANGED fields
    ELSE last'.passed = last'.frame /\ UNCHANGED fields

C11_SendThrowsWithoutSocket == [][C11_SendStep]_vars

\* send was called before the first initializeConnection, with a listener registered
C11_Witness ==
  /\ last.op = "send" /\ last.thrown /\ last.passed = NoFrame
  /\ socket = 0 /\ eventList["_originalMessage"] # {}

\* C12: when pingInterval is changed from one positive value to another while
\* the interval runs, the next ping is still sent at the tick of the old
\* interval, and from that ping on every ping is spaced by the new interval.
C12_NewIntervalAfterNextTick ==
  /\ retimed > 0 /\ pingInterval > 0 =>
       \E i \in Pending(intervalTimers) :
         /\ intervalPeriod[i] = retimed
         /\ \A j \in Pending(intervalTimers) : intervalTimers[i] <= intervalTimers[j]
  /\ retimed < 0 /\ pingInterval > 0 =>
       \A i \in Pending(intervalTimers) : intervalPeriod[i] = pingInterval

\* C13: with pingInterval = 0 the timer of a ServerSocketBase sends no ping;
\* setting pingInterval to 0 while the interval runs lets exactly one more
\* scheduled ping happen and none after it.
C13_ZeroStopsAfterOneTick ==
  role = "server" /\ pingInterval = 0 =>
    IF retimed > 0
    THEN Cardinality(Pending(intervalTimers)) = 1
    ELSE Pending(intervalTimers) = {}

\* C14: after stopPingImmediately() the timer sends no ping until
\* restartPingInterval(), an open event or a change of pingInterval away from 0
\* starts the interval again; after restartPingInterval() the next ping is sent
\* one pingInterval after the call.
C14_StopMeansNoTimer ==
  role = "server" =>
    /\ pingIntervalID = NullID => Pending(intervalTimers) = {}
    /\ last.op = "restartPingInterval" /\ pingInterval > 0 =>
         /\ Pending(intervalTimers) = {pingIntervalID}
         /\ intervalTimers[pingIntervalID] = pingInterval

\* C15: stopReconnectionAttempt() leaves no reconnection attempt pending and
\* #reconnectTimeoutDuration = minReconnectTimeoutDuration, so that no WebSocket
\* is constructed by the controller until a later close event.
C15_StopLeavesNothingPending ==
  last.op = "stopReconnectionAttempt" =>
    /\ Pending(reconnectTimers) = {}
    /\ reconnectTimeoutID = NullID
    /\ reconnectTimeoutDuration = minReconnectTimeoutDuration

\* C16: after an open event no reconnection attempt is pending, so that the
\* controller constructs no WebSocket between an open event and the next close.
C16_OpenLeavesNothingPending ==
  last.op = "open" => Pending(reconnectTimers) = {} /\ reconnectTimeoutID = NullID

C18_MessageStep ==
  isTimedOut /\ (\E f \in Frames : Handled(f)') =>
    ~isTimedOut' /\ "_reconnect" \in Emitted'
C19_SendPingStep ==
  last'.op = "sendPing" =>
    /\ ~last'.thrown
    /\ last'.sent = IF socket # 0 /\ readyState[socket] = 1 THEN 1 ELSE 0
    /\ "_sentPing" \in Emitted' <=> last'.sent = 1
    /\ socket' = socket /\ readyState' = readyState
C19_SendPingNeverThrows == [][C19_SendPingStep]_vars

\* sendPing() was called while the attached socket was still connecting
C19_Witness ==
  /\ last.op = "sendPing" /\ last.sent = 0 /\ ~last.thrown
  /\ socket # 0 /\ readyState[socket] = 0
  /\ "_sentPing" \notin Emitted

\* C20: a ping timeout firing (_missedPing) only sets isTimedOut and emits
\* _timeout: it leaves the socket, its readyState and listeners, the reconnect
\* delay and the pending reconnection attempt unchanged, closes nothing,
\* constructs no socket and schedules no reconnection.
C20_MissedPingStep ==
  last'.op = "_missedPing" =>
    /\ isTimedOut'
    /\ Emitted' = IF isTimedOut THEN {} ELSE {"_timeout"}
    /\ socket' = socket /\ readyState' = readyState /\ sockListeners' = sockListeners
    /\ reconnectTimeoutDuration' = reconnectTimeoutDuration
    /\ reconnectTimeoutID' = reconnectTimeoutID /\ reconnectTimers' = reconnectTimers
    /\ last'.built = 0 /\ last'.scheduled < 0 /\ last'.sent = 0
C21_FlagStep ==
  /\ ~isTimedOut /\ isTimedOut' => last'.op = "_missedPing"
  /\ isTimedOut /\ ~isTimedOut' =>
       /\ \E f \in Frames : IsPingPayload(f) /\ Handled(f)'
       /\ "_reconnect" \in Emitted'
C21_FlagOnlyByTimeoutAndPing ==
  (last.op = "new" => ~isTimedOut) /\ [][C21_FlagStep]_vars

\* the step hands a ping frame to _handleReceivedPing: a one-byte ArrayBuffer
\* arriving on a socket that holds _messageIntercept, or a one-byte Blob whose
\* content has been read
Diverted ==
  \/ /\ last'.op = "message"
     /\ last'.frame.kind = "arraybuffer" /\ IsPingPayload(last'.frame)
     /\ <<"message", "_messageIntercept">> \in sockListeners[last'.sock]
  \/ last'.op = "resume" /\ IsPingPayload(last'.frame)

\* how often the handlers of the last step emitted type
Count(type) == Cardinality({i \in 1..Len(last.emitted) : last.emitted[i] = type})

\* C22: each ping frame handed to _handleReceivedPing emits _receivedPing
\* exactly once, followed by _reconnect exactly when isTimedOut was true at
\* that moment, after which isTimedOut is false.
C22_ReceiveStep ==
  Diverted =>
    /\ Count("_receivedPing")' = 1
    /\ Count("_reconnect")' = IF isTimedOut THEN 1 ELSE 0
    /\ isTimedOut =>
         \E i, j \in 1..Len(last'.emitted) :
           i < j /\ last'.emitted[i] = "_receivedPing" /\ last'.emitted[j] = "_reconnect"
    /\ ~isTimedOut'
C22_ReceivedThenReconnect == [][C22_ReceiveStep]_vars

\* a ping ended a timeout: _receivedPing, then _reconnect, were emitted
C22_Witness ==
  /\ last.op \in {"message", "resume"} /\ IsPingPayload(last.frame)
  /\ Count("_receivedPing") = 1 /\ Count("_reconnect") = 1 /\ ~isTimedOut

\* C23: at most one ping timeout is pending at any time: _addPingTimeout
\* always cancels the previous timer before scheduling, so that the only
\* pending timer is the one just armed, and _clearPingTimeout called with
\* nothing pending changes no timer.
C23_OnePending ==
  /\ Cardinality(Pending(pingTimers)) <= 1
  /\ Pending(pingTimers) \subseteq {awaitPingTimeoutID}
C23_TimeoutStep ==
  /\ last'.armed >= 0 =>
       /\ Pending(pingTimers') = {awaitPingTimeoutID'}
       /\ pingTimers'[awaitPingTimeoutID'] = last'.armed
  /\ Diverted /\ Pending(pingTimers) = {} =>
       pingTimers' = pingTimers /\ awaitPingTimeoutID' = NullID /\ last'.armed < 0
C23_OneTimeoutPending == []C23_OnePending /\ [][C23_TimeoutStep]_vars

\* sendPing armed a new timeout while the one of an earlier, still unanswered
\* ping was pending
C23_Witness ==
  /\ last.op = "sendPing" /\ last.armed = pingTimeout
  /\ unanswered >= Unit /\ unanswered < pingTimeout /\ ~isTimedOut
  /\ Cardinality(Pending(pingTimers)) = 1

\* C24: at most one reconnection attempt is pending at any time: scheduling
\* an attempt on a close event invalidates the one scheduled before, also
\* when the close events come from a replaced WebSocket.
C24_OneAttemptPending ==
  /\ Cardinality(Pending(reconnectTimers)) <= 1
  /\ Pending(reconnectTimers) \subseteq {reconnectTimeoutID}

\* C25: at most one ping interval timer is active at any time on a server,
\* under any interleaving of pingInterval changes (to and from 0 as well), open
\* events, stopPingImmediately and restartPingInterval.
C25_OneIntervalActive ==
  role = "server" =>
    /\ Cardinality(Pending(intervalTimers)) <= 1
    /\ Pending(intervalTimers) \subseteq {pingIntervalID}

\* C26: after a close event no ping timeout remains pending: no _timeout is
\* emitted between the close event of the socket and its next open event.
C26_NoTimeoutAfterClose ==
  socket # 0 /\ readyState[socket] = 3 =>
    /\ Pending(pingTimers) = {}
    /\ ~(last.op = "_missedPing" /\ "_timeout" \in Emitted)

\* C27: on a server, a ping handed to _handleReceivedPing before the deadline
\* cancels the pending timeout: no timeout is pending from that reply until the
\* next call of sendPing, so no _timeout is emitted in between and isTimedOut
\* stays false.
C27_ReplyStep ==
  role = "server" =>
    /\ Diverted => Pending(pingTimers') = {} /\ ~isTimedOut'
    /\ Pending(pingTimers) = {} /\ Pending(pingTimers') # {} => last'.op = "sendPing"
    /\ "_timeout" \in Emitted' =>
         last'.op = "_missedPing" /\ Pending(pingTimers) # {} /\ ~isTimedOut
    /\ ~isTimedOut /\ isTimedOut' => "_timeout" \in Emitted'
C27_ReplyCancelsTimeout == [][C27_ReplyStep]_vars

\* a pong arrived while the timeout of the last ping was pending
C27_Witness ==
  /\ role = "server" /\ last.op = "message" /\ IsPingPayload(last.frame)
  /\ last.cleared /\ Pending(pingTimers) = {} /\ ~isTimedOut
  /\ Pending(intervalTimers) # {}

\* C28: after an open event on a server isTimedOut is false, whatever its
\* value was before the open.
C28_OpenClearsFlag ==
  role = "server" /\ last.op = "open" => ~isTimedOut

\* C29: on a client #pingSetup stays within 0..2, and of the pings handed to
\* _handleReceivedPing while not timed out, the first after a (re)start of the
\* setup changes neither medianPingInterval nor the timeout, the second sets
\* medianPingInterval to the elapsed time without arming a timeout, and every
\* later one sets medianPingInterval to (4 * medianPingInterval + elapsed) / 5
\* and arms a timeout.
C29_SetupStep ==
  role = "client" /\ Diverted /\ ~isTimedOut =>
    /\ pingSetup = 0 =>
         /\ pingSetup' = 1 /\ medianPingInterval' = medianPingInterval
         /\ last'.armed < 0 /\ pingTimers' = pingTimers
         /\ awaitPingTimeoutID' = awaitPingTimeoutID
    /\ pingSetup = 1 =>
         /\ pingSetup' = 2 /\ medianPingInterval' = Rat(sinceLastPing, 1)
         /\ last'.armed < 0 /\ pingTimers' = pingTimers
         /\ awaitPingTimeoutID' = awaitPingTimeoutID
    /\ pingSetup = 2 =>
         /\ pingSetup' = 2
         /\ medianPingInterval' =
              Rat(4 * medianPingInterval[1] + sinceLastPing * medianPingInterval[2],
                  5 * medianPingInterval[2])
         /\ last'.armed >= 0
         /\ Pending(pingTimers') = {awaitPingTimeoutID'}
         /\ pingTimers'[awaitPingTimeoutID'] = last'.armed
C29_WarmupThenAverage == [](pingSetup \in 0..2) /\ [][C29_SetupStep]_vars

\* the third ping came 2000 ms after the second, which came 1000 ms after the
\* first: medianPingInterval is (4 * 1000 + 2000) / 5 and a timeout is armed
C29_Witness ==
  /\ role = "client" /\ last.op \in {"message", "resume"} /\ IsPingPayload(last.frame)
  /\ pingSetup = 2 /\ medianPingInterval = <<1200, 1>> /\ last.armed >= 0
  /\ Pending(pingTimers) # {}

\* C30: on a client, a ping handed to _handleReceivedPing while
\* isTimedOut is true sets #pingSetup to 0, leaves medianPingInterval unchanged,
\* arms no timeout, and still sends exactly one pong and emits _reconnect.
C30_TimedOutStep ==
  role = "client" /\ Diverted /\ isTimedOut =>
    /\ pingSetup' = 0 /\ medianPingInterval' = medianPingInterval
    /\ last'.armed < 0 /\ pingTimers' = pingTimers
    /\ last'.sent = 1
    /\ Count("_reconnect")' = 1
C30_TimedOutPingResets == [][C30_TimedOutStep]_vars

\* C31: on a client, whenever isTimedOut goes from true to false #pingSetup is
\* 0 immediately afterwards, and a close, a replacement or an open of the
\* socket alone never changes #pingSetup, medianPingInterval or
\* #lastPingTimestamp.
C31_ResetStep ==
  role = "client" =>
    /\ isTimedOut /\ ~isTimedOut' => pingSetup' = 0
    /\ last'.op \in {"open", "close", "initializeConnection", "reconnect"} =>
         /\ pingSetup' = pingSetup
         /\ medianPingInterval' = medianPingInterval
         /\ sinceLastPing' = sinceLastPing
C31_ResetOnRecoveryOnly == [][C31_ResetStep]_vars

\* the registry entry that holds the application's listeners of a type
Key(type) == IF type = "message" THEN "_originalMessage" ELSE type

\* C32: after removeEventListener(type, cb) for a pass-through type, cb is no
\* longer invoked for events of the current socket and is not registered again
\* on a later socket by _addEventsAgain: the call takes cb out of the registry
\* and off the current socket, the current socket never holds an application
\* listener the registry lacks, and an event of the current socket invokes only
\* callbacks the registry holds.
C32_Registry ==
  socket # 0 =>
    \A t \in PassThruTypes : \A c \in AppCallbacks :
      <<t, c>> \in sockListeners[socket] => c \in eventList[t]
C32_RemoveStep ==
  /\ last'.op = "removeEventListener" =>
       /\ last'.cb \notin eventList'[Key(last'.type)]
       /\ last'.cb \notin eventList'[last'.type] \/ last'.type = "message"
       /\ socket' # 0 => <<last'.type, last'.cb>> \notin sockListeners'[socket']
  /\ \A t \in PassThruTypes : \A c \in AppCallbacks :
       /\ last'.type = t /\ last'.calls[Key(t)][c] > 0
       /\ last'.op = "resume" \/ last'.sock = socket
       => c \in eventList[Key(t)]
  /\ \A c \in AppCallbacks : last'.calls["message"][c] = 0
C32_RemovedStaysRemoved == []C32_Registry /\ [][C32_RemoveStep]_vars

\* a registered message listener was removed while a socket was open: neither
\* the registry nor the socket holds it any more
C32_Witness ==
  /\ last.op = "removeEventListener" /\ last.type = "message" /\ last.registered
  /\ socket # 0 /\ readyState[socket] = 1
  /\ last.cb \notin eventList["_originalMessage"]
  /\ <<"message", last.cb>> \notin sockListeners[socket]

\* C33: every frame arriving on the current WebSocket that is not a ping frame
\* (a text, a binary frame of another length than 1, a single nonzero byte) is
\* delivered exactly once to each registered message listener, as the event the
\* WebSocket raised.
C33_FrameDeliveredOnce ==
  \A f \in Frames :
    Handled(f) /\ ~IsPingPayload(f) /\ (last.op = "message" => last.sock = socket) =>
      \A c \in eventList["_originalMessage"] :
        last.calls["_originalMessage"][c] = 1 /\ last.delivered = f

\* C34: inbound frames are handled one at a time in arrival order: while the
\* handling of a frame has not run to its end (a one-byte Blob whose content is
\* being read) no further event of a WebSocket is handled, so no later frame
\* reaches the message listeners before it.
C34_FrameStep ==
  pendingBlob # <<>> =>
    /\ last'.op \notin {"message", "open", "close"}
    /\ last'.op = "resume" => last'.frame = Head(pendingBlob)
C34_OneFrameAtATime == [][C34_FrameStep]_vars

\* C35: removeEventListener('message', cb) for a registered cb leaves every
\* other message listener registered and leaves _messageIntercept in the
\* registry and on the current WebSocket, so the other listeners still receive
\* frames and ping frames are still handed to _handleReceivedPing, on the
\* current WebSocket and after a replacement.
C35_RemoveStep ==
  last'.op = "removeEventListener" /\ last'.type = "message" /\ last'.registered =>
    /\ eventList'["_originalMessage"] = eventList["_originalMessage"] \ {last'.cb}
    /\ eventList'["message"] = eventList["message"]
    /\ sockListeners' = sockListeners
C35_RemoveKeepsIntercept == [][C35_RemoveStep]_vars

\* C36: on a server _timeout is emitted only if a ping frame was transmitted
\* and not answered within pingTimeout: a call of sendPing that transmits
\* nothing, the socket being absent or not open, arms no timeout.
C36_NoSendNoTimeout ==
  role = "server" =>
    /\ last.op = "sendPing" /\ last.sent = 0 => last.armed < 0
    /\ last.op = "_missedPing" /\ "_timeout" \in Emitted => unanswered >= pingTimeout

\* C37: every _reconnect notification is preceded by a _timeout notification
\* emitted since the previous _reconnect (or since the start): _reconnect is
\* never emitted twice without a _timeout in between.
C37_ReconnectStep ==
  "_reconnect" \in Emitted' =>
    /\ timeoutsSinceReconnect >= 1
    /\ Count("_reconnect")' = 1 /\ "_timeout" \notin Emitted'
    /\ timeoutsSinceReconnect' = 0
C37_TimeoutBeforeReconnect ==
  (timeoutsSinceReconnect = 0) /\ [][C37_ReconnectStep]_vars

\* an outage has ended: _timeout was emitted, and now a ping emitted _reconnect
C37_Witness ==
  /\ "_reconnect" \in Emitted /\ timeoutsSinceReconnect = 0 /\ ~isTimedOut
  /\ last.op \in {"message", "resume"} /\ IsPingPayload(last.frame)

\* C38: after initializeConnection has replaced the WebSocket, events of the
\* previous WebSocket (message, open, close) reach neither the application's
\* listeners nor the endpoint's own open and close handlers, so a late close of
\* the old WebSocket schedules no reconnection while the new one is live.
C38_OldSocketIsDeaf ==
  /\ last.op \in {"message", "open", "close"} /\ last.sock # socket
  /\ socket # 0 /\ readyState[socket] \in {0, 1}
  => /\ last.calls = NoCalls /\ last.emitted = <<>>
     /\ last.scheduled < 0 /\ Pending(reconnectTimers) = {}

\* C39: on a client, after a recovery (a ping handled while timed out), if the
\* peer falls silent again while the socket stays open, _timeout is eventually
\* emitted again.  _timeout is emitted only by a pending timeout and a timeout
\* is armed only when a ping is handled, so the recovery must leave one pending.
C39_RecoveryKeepsWatching ==
  /\ role = "client" /\ last.op \in {"message", "resume"} /\ "_reconnect" \in Emitted
  /\ socket # 0 /\ readyState[socket] = 1
  => Pending(pingTimers) # {}

\* C40: on a client medianPingInterval is never updated from an elapsed time
\* that spans a period in which the socket was closed: the first ping handled
\* on the socket that replaced a closed one feeds the gap neither into the
\* average nor into an armed timeout.
C40_DowntimeStep ==
  /\ role = "client" /\ downtime
  /\ Diverted /\ last'.op = "message" /\ last'.sock = socket
  => medianPingInterval' = medianPingInterval /\ last'.armed < 0
C40_DowntimeNotAveraged == [][C40_DowntimeStep]_vars

====
